---------------------------- MODULE Spec2Model ----------------------------
(***************************************************************************)
(* verify_setup.py: the PRC setup verification script.                     *)
(*                                                                         *)
(* main() prints a report on standard output while probing the Python      *)
(* packages (check_python_module) and the external scanners                *)
(* (check_command).  The interpreter, the import system, the child         *)
(* processes and the process environment are the script's environment:    *)
(* the version and the environment block are fixed when the process        *)
(* starts, the outcome of an import or of a child process is chosen when   *)
(* the probe runs.                                                         *)
(***************************************************************************)
EXTENDS Integers, Sequences, FiniteSets, TLC

VARIABLES
    pc,               \* position of main()
    out,              \* lines printed on standard output so far
    i,                \* index of the current entry of the table being looped over
    tools_available,  \* main's counter of external tools found
    call,             \* frame of the probe in progress or just returned
    alive,            \* child processes spawned by the script and not yet reaped
    probed,           \* the calls of check_command, in order, each with its result
    raised,           \* exception propagating out of main(), None if none
    exit_status,      \* exit status of the process, Running until it exits
    version_info,     \* sys.version_info as <<major, minor, micro>>
    environ           \* os.environ restricted to OPENAI_API_KEY

vars == <<pc, out, i, tools_available, call, alive, probed, raised,
          exit_status, version_info, environ>>

----------------------------------------------------------------------------
(* Bounds of the environment *)

MaxMajor == 4        \* interpreter majors 3..MaxMajor
MaxMinor == 9        \* interpreter minors up to MaxMinor
MaxMicro == 0        \* interpreter micros 0..MaxMicro
MaxDuration == 11    \* a child needs up to MaxDuration seconds to exit
MaxReturnCode == 1   \* a child exits with a status in -1..MaxReturnCode

(* Program constants *)

Timeout == 10        \* timeout=10 of subprocess.run
BannerWidth == 60    \* "=" * 60

None == "None"
Running == "running"
NoCall == [fn |-> "none"]
Pending == [kind |-> "pending"]

Range(s) == {s[k] : k \in DOMAIN s}

----------------------------------------------------------------------------
(* Python semantics used by the script *)

\* "=" * n
RECURSIVE Repeat(_, _)
Repeat(s, n) == IF n <= 0 THEN "" ELSE s \o Repeat(s, n - 1)

\* variant: compares the minor versions alone
MinorLess(a, b) == a[2] < b[2]

\* a < b on tuples of integers: the first differing position decides, and a
\* proper prefix is smaller
RECURSIVE TupleLess(_, _)
TupleLess(a, b) ==
    IF b = <<>> THEN FALSE
    ELSE IF a = <<>> THEN TRUE
    ELSE IF Head(a) # Head(b) THEN Head(a) < Head(b)
    ELSE TupleLess(Tail(a), Tail(b))

\* the exception classes the probes can meet, each with its base classes
Bases(exc) ==
    CASE exc = "FileNotFoundError"   -> {"FileNotFoundError", "OSError", "Exception"}
      [] exc = "PermissionError"     -> {"PermissionError", "OSError", "Exception"}
      [] exc = "TimeoutExpired"      -> {"TimeoutExpired", "SubprocessError", "Exception"}
      [] exc = "ModuleNotFoundError" -> {"ModuleNotFoundError", "ImportError", "Exception"}
      [] exc = "ImportError"         -> {"ImportError", "Exception"}
      [] exc = "SyntaxError"         -> {"SyntaxError", "Exception"}
      [] OTHER                       -> {exc}

\* an except clause naming the classes in `handlers` catches exc
Catches(handlers, exc) == Bases(exc) \cap handlers # {}

Return(v) == [kind |-> "return", value |-> v]
Raise(exc) == [kind |-> "raise", exc |-> exc]

\* variant: `is not None` in place of the truth value
NotNone(v) == v # <<>>

\* truth value of an Optional[str]: None and "" are false
Truthy(v) == v # <<>> /\ v[1] # ""

\* os.getenv(name): <<>> stands for None, <<s>> for the string s
getenv(name) == IF name \in DOMAIN environ THEN <<environ[name]>> ELSE <<>>

----------------------------------------------------------------------------
(* The environment's possible answers *)

\* the interpreters able to run the script (f-strings need 3.6)
Versions ==
    {v \in (3..MaxMajor) \X (0..MaxMinor) \X (0..MaxMicro) : v[1] = 3 => v[2] >= 6}

\* sys.version, reduced to "major.minor.micro"
VersionString(v) == ToString(v[1]) \o "." \o ToString(v[2]) \o "." \o ToString(v[3])

\* the environment block: the variable is unset, set to "", or set to a key
Environs ==
    {<<>>} \cup {[n \in {"OPENAI_API_KEY"} |-> s] : s \in {"", "sk-test"}}

\* what __import__(module) can do: load the module, fail with ImportError or
\* its subclass ModuleNotFoundError, or fail while running the module's own
\* code (here a SyntaxError in an installed package)
LoadOutcomes == {"loaded", "ModuleNotFoundError", "ImportError", "SyntaxError"}

\* what a child process can do under subprocess.run: fail to start
\* (no such file, file not executable), or start and need `duration`
\* seconds before exiting with `returncode`, having written `stdout`
Children ==
    [start : {"FileNotFoundError", "PermissionError"}, duration : {0},
     returncode : {0}, stdout : {""}]
    \cup
    [start : {"ok"}, duration : (Timeout - 1)..MaxDuration,
     returncode : (-1)..MaxReturnCode, stdout : {"", "Version: 0.50.0"}]

----------------------------------------------------------------------------
(* The tables of main() *)

required_packages == << <<"click", "click">>, <<"rich", "rich">> >>

optional_packages ==
    << <<"reportlab", "reportlab", "PDF report generation">>,
       <<"openai", "openai", "AI-powered insights">> >>

external_tools ==
    << <<"trivy", "Trivy", "Vulnerability scanner",
         "https://trivy.dev/latest/getting-started/installation/">>,
       <<"checkov", "Checkov", "IaC scanner", "pip install checkov">>,
       <<"gitleaks", "Gitleaks", "Secret detection",
         "https://github.com/gitleaks/gitleaks#installing">> >>


----------------------------------------------------------------------------
(* The probes *)

\* the command line check_command runs
Argv(cmd) == IF cmd # "checkov" THEN <<cmd, "--version">> ELSE <<cmd, "-v">>

\* variant: any exit within the timeout counts as available
check_command_AnyExit(cmd, name, child) ==
    IF child.start = "ok"
    THEN Return(child.duration <= Timeout)
    ELSE IF Catches({"FileNotFoundError", "TimeoutExpired"}, child.start)
         THEN Return(FALSE)
    ELSE Raise(child.start)

\* check_command(cmd, name), given what the child process does: subprocess.run
\* raises the start failure, or TimeoutExpired when the child has not exited
\* after Timeout seconds, and otherwise yields the child's return code; the
\* except clause turns FileNotFoundError and TimeoutExpired into False
check_command(cmd, name, child) ==
    LET ran == IF child.start # "ok" THEN Raise(child.start)
               ELSE IF child.duration > Timeout THEN Raise("TimeoutExpired")
               ELSE Return(child.returncode)
    IN  IF ran.kind = "return" THEN Return(ran.value = 0)
        ELSE IF Catches({"FileNotFoundError", "TimeoutExpired"}, ran.exc)
             THEN Return(FALSE)
        ELSE Raise(ran.exc)

\* check_python_module(module), given what __import__ does
check_python_module(module, load) ==
    IF load = "loaded" THEN Return(TRUE)
    ELSE IF Catches({"ImportError"}, load) THEN Return(FALSE)
    ELSE Raise(load)

----------------------------------------------------------------------------
(* The lines of the report *)

Banner == Repeat("=", BannerWidth)
TitleLine == "PRC Setup Verification"
VersionLine(v) == "\nPython Version: " \o VersionString(v)
VersionWarning == "  [WARNING] Python 3.9+ is recommended"
VersionOk == "  [OK] Python version is compatible"
RequiredHeader == "\n--- Required Python Packages ---"
OptionalHeader == "\n--- Optional Python Packages ---"
ExternalHeader == "\n--- External Scanning Tools ---"
BuiltinHeader == "\n--- Built-in Scanner ---"
BuiltinLine == "  [ALWAYS AVAILABLE] Built-in Secret Scanner"
BuiltinDetail ==
    "                     Detects hardcoded passwords, API keys, K8s secrets"
SummaryBanner == "\n" \o Banner
SummaryTitle == "Summary"
NoToolsLine == "\n[INFO] No external tools installed."
NoToolsDetail1 == "       PRC will use the built-in secret scanner only."
NoToolsDetail2 ==
    "       For comprehensive scanning, install Trivy, Checkov, or Gitleaks."
CountLine(n) ==
    "\n[OK] " \o ToString(n) \o " external tool(s) available + built-in scanner"
EnvHeader == "\n--- Environment Variables ---"
EnvEnabled == "  [OK] OPENAI_API_KEY is set (AI insights enabled)"
EnvFallback == "  [NOT SET] OPENAI_API_KEY - AI insights will use fallback mode"
EnvHint == "            Set with: export OPENAI_API_KEY=your-key"
UsageTitle == "To run a scan:"
UsageLine == "  python -m src.cli.main scan /path/to/project"

RequiredLines(p, found) ==
    IF found THEN << "  [OK] " \o p[1] \o " installed" >>
    ELSE << "  [MISSING] " \o p[1] \o " - install with: pip install " \o p[1] >>

OptionalLines(p, found) ==
    IF found THEN << "  [OK] " \o p[1] \o " - " \o p[3] >>
    ELSE << "  [OPTIONAL] " \o p[1] \o " - " \o p[3],
            "             Install with: pip install " \o p[1] >>

ToolLines(t, found) ==
    IF found THEN << "  [OK] " \o t[2] \o " - " \o t[3] >>
    ELSE << "  [NOT INSTALLED] " \o t[2] \o " - " \o t[3],
            "                  Install: " \o t[4] >>

\* the summary's branch on the counter
SummaryLines(n) ==
    IF n = 0 THEN <<NoToolsLine, NoToolsDetail1, NoToolsDetail2>>
    ELSE <<CountLine(n)>>

\* variant: the two branches exchanged
EnvLinesSwapped(openai_key) ==
    IF Truthy(openai_key) THEN <<EnvFallback, EnvHint>> ELSE <<EnvEnabled>>

\* the environment-variable branch on os.getenv("OPENAI_API_KEY")
EnvLines(openai_key) ==
    IF Truthy(openai_key) THEN <<EnvEnabled>> ELSE <<EnvFallback, EnvHint>>

\* the version branch on sys.version_info < (3, 9)
VersionLines(info) ==
    IF TupleLess(info, <<3, 9>>) THEN <<VersionWarning>> ELSE <<VersionOk>>

----------------------------------------------------------------------------
(* main() *)

Init ==
    /\ pc = "banner"
    /\ out = <<>>
    /\ i = 0
    /\ tools_available = 0
    /\ call = NoCall
    /\ alive = {}
    /\ probed = <<>>
    /\ raised = None
    /\ exit_status = Running
    /\ version_info \in Versions
    /\ environ \in Environs

print(lines) == out' = out \o lines

\* an exception no except clause caught leaves main(): nothing more is printed
Propagate(exc) ==
    /\ raised' = exc
    /\ pc' = "exit"

\* lines 34-36
PrintBanner ==
    /\ pc = "banner"
    /\ print(<<Banner, TitleLine, Banner>>)
    /\ pc' = "version"
    /\ UNCHANGED <<i, tools_available, call, alive, probed, raised, exit_status,
                   version_info, environ>>

\* lines 39-43
CheckVersion ==
    /\ pc = "version"
    /\ print(<<VersionLine(version_info)>> \o VersionLines(version_info))
    /\ pc' = "required"
    /\ UNCHANGED <<i, tools_available, call, alive, probed, raised, exit_status,
                   version_info, environ>>

\* lines 46-50
StartRequired ==
    /\ pc = "required"
    /\ print(<<RequiredHeader>>)
    /\ i' = 1
    /\ pc' = "req_probe"
    /\ UNCHANGED <<tools_available, call, alive, probed, raised, exit_status,
                   version_info, environ>>

\* the call of check_python_module for entry i of `table`
ProbeModule(table, at, next) ==
    /\ pc = at
    /\ \E load \in LoadOutcomes :
         LET module == table[i][2]
             result == check_python_module(module, load)
         IN  /\ call' = [fn |-> "check_python_module", module |-> module,
                         load |-> load, result |-> result]
             /\ IF result.kind = "raise"
                THEN Propagate(result.exc)
                ELSE pc' = next /\ UNCHANGED raised
    /\ UNCHANGED <<out, i, tools_available, alive, probed, exit_status,
                   version_info, environ>>

\* the loop's step to the next entry of `table`, or out of the loop
Advance(table, again, after) ==
    /\ i' = i + 1
    /\ pc' = IF i < Len(table) THEN again ELSE after

\* line 53
ProbeRequired == ProbeModule(required_packages, "req_probe", "req_print")

\* variant: a missing required package ends the report
PrintRequiredAbort ==
    /\ pc = "req_print"
    /\ print(RequiredLines(required_packages[i], call.result.value))
    /\ call' = NoCall
    /\ i' = i + 1
    /\ pc' = IF ~call.result.value THEN "exit"
             ELSE IF i < Len(required_packages) THEN "req_probe" ELSE "optional"
    /\ UNCHANGED <<tools_available, alive, probed, raised, exit_status,
                   version_info, environ>>

\* lines 52-56
PrintRequired ==
    /\ pc = "req_print"
    /\ print(RequiredLines(required_packages[i], call.result.value))
    /\ call' = NoCall
    /\ Advance(required_packages, "req_probe", "optional")
    /\ UNCHANGED <<tools_available, alive, probed, raised, exit_status,
                   version_info, environ>>

\* lines 59-63
StartOptional ==
    /\ pc = "optional"
    /\ print(<<OptionalHeader>>)
    /\ i' = 1
    /\ pc' = "opt_probe"
    /\ UNCHANGED <<tools_available, call, alive, probed, raised, exit_status,
                   version_info, environ>>

\* line 66
ProbeOptional == ProbeModule(optional_packages, "opt_probe", "opt_print")

\* lines 65-70
PrintOptional ==
    /\ pc = "opt_print"
    /\ print(OptionalLines(optional_packages[i], call.result.value))
    /\ call' = NoCall
    /\ Advance(optional_packages, "opt_probe", "external")
    /\ UNCHANGED <<tools_available, alive, probed, raised, exit_status,
                   version_info, environ>>

\* lines 73-80
StartExternal ==
    /\ pc = "external"
    /\ print(<<ExternalHeader>>)
    /\ tools_available' = 0
    /\ i' = 1
    /\ pc' = "ext_spawn"
    /\ UNCHANGED <<call, alive, probed, raised, exit_status, version_info, environ>>

\* line 82 into lines 16-20: subprocess.run starts the child.  A child that
\* cannot be started leaves check_command at once, by `return False` or by
\* the exception
SpawnTool ==
    /\ pc = "ext_spawn"
    /\ \E child \in Children :
         LET cmd == external_tools[i][1]
             name == external_tools[i][2]
             frame == [fn |-> "check_command", cmd |-> cmd, name |-> name,
                       argv |-> Argv(cmd), child |-> child]
             result == check_command(cmd, name, child)
         IN  /\ probed' = Append(probed, [cmd |-> cmd, result |->
                                   IF child.start = "ok" THEN Pending ELSE result])
             /\ IF child.start = "ok"
                THEN /\ alive' = alive \cup {cmd}
                     /\ call' = [frame EXCEPT !.fn = "subprocess.run"]
                     /\ pc' = "ext_wait"
                     /\ UNCHANGED raised
                ELSE /\ call' = [fn |-> "check_command", cmd |-> cmd,
                                 name |-> name, argv |-> Argv(cmd),
                                 child |-> child, result |-> result]
                     /\ UNCHANGED alive
                     /\ IF result.kind = "raise"
                        THEN Propagate(result.exc)
                        ELSE pc' = "ext_print" /\ UNCHANGED raised
    /\ UNCHANGED <<out, i, tools_available, exit_status, version_info, environ>>

\* variant: a child that ran into the timeout is left running
LeakedOnTimeout ==
    IF call.child.duration > Timeout THEN alive ELSE alive \ {call.cmd}

\* the children left once subprocess.run has returned or raised: it waits for
\* the child's exit, and on the timeout kills the child and waits for it
ReapedChildren == alive \ {call.cmd}

\* lines 16-23: subprocess.run returns or raises TimeoutExpired, and
\* check_command returns
WaitTool ==
    /\ pc = "ext_wait"
    /\ alive' = ReapedChildren
    /\ LET result == check_command(call.cmd, call.name, call.child)
       IN  /\ call' = [fn |-> "check_command", cmd |-> call.cmd,
                       name |-> call.name, argv |-> call.argv,
                       child |-> call.child, result |-> result]
           /\ probed' = [probed EXCEPT ![Len(probed)].result = result]
           /\ IF result.kind = "raise"
              THEN Propagate(result.exc)
              ELSE pc' = "ext_print" /\ UNCHANGED raised
    /\ UNCHANGED <<out, i, tools_available, exit_status, version_info, environ>>

\* variant: every probed tool is counted
CountEvery(n, found) == n + 1

\* line 84
Count(n, found) == IF found THEN n + 1 ELSE n

\* lines 81-87
PrintTool ==
    /\ pc = "ext_print"
    /\ print(ToolLines(external_tools[i], call.result.value))
    /\ tools_available' = Count(tools_available, call.result.value)
    /\ call' = NoCall
    /\ Advance(external_tools, "ext_spawn", "builtin")
    /\ UNCHANGED <<alive, probed, raised, exit_status, version_info, environ>>

\* lines 90-92
PrintBuiltin ==
    /\ pc = "builtin"
    /\ print(<<BuiltinHeader, BuiltinLine, BuiltinDetail>>)
    /\ pc' = "summary"
    /\ UNCHANGED <<i, tools_available, call, alive, probed, raised, exit_status,
                   version_info, environ>>

\* lines 95-104
PrintSummary ==
    /\ pc = "summary"
    /\ print(<<SummaryBanner, SummaryTitle, Banner>> \o SummaryLines(tools_available))
    /\ pc' = "env"
    /\ UNCHANGED <<i, tools_available, call, alive, probed, raised, exit_status,
                   version_info, environ>>

\* lines 107-114
CheckEnvironment ==
    /\ pc = "env"
    /\ print(<<EnvHeader>> \o EnvLines(getenv("OPENAI_API_KEY")))
    /\ pc' = "usage"
    /\ UNCHANGED <<i, tools_available, call, alive, probed, raised, exit_status,
                   version_info, environ>>

\* lines 116-119, and main() returns
PrintUsage ==
    /\ pc = "usage"
    /\ print(<<SummaryBanner, UsageTitle, UsageLine, Banner>>)
    /\ pc' = "exit"
    /\ UNCHANGED <<i, tools_available, call, alive, probed, raised, exit_status,
                   version_info, environ>>

\* the status the interpreter exits with once main() has returned (0) or an
\* exception has left it (1, after the traceback on standard error)
ExitStatus(exc) == IF exc = None THEN 0 ELSE 1

\* lines 121-122: the script ends
Exit ==
    /\ pc = "exit"
    /\ exit_status' = ExitStatus(raised)
    /\ pc' = "done"
    /\ UNCHANGED <<out, i, tools_available, call, alive, probed, raised,
                   version_info, environ>>

Next ==
    \/ PrintBanner
    \/ CheckVersion
    \/ StartRequired
    \/ ProbeRequired
    \/ PrintRequired
    \/ StartOptional
    \/ ProbeOptional
    \/ PrintOptional
    \/ StartExternal
    \/ SpawnTool
    \/ WaitTool
    \/ PrintTool
    \/ PrintBuiltin
    \/ PrintSummary
    \/ CheckEnvironment
    \/ PrintUsage
    \/ Exit

Spec == Init /\ [][Next]_vars

----------------------------------------------------------------------------
(* What the report shows *)

Printed == Range(out)

\* the section a line opens, "" for a line that opens none
SectionOf(line) ==
    CASE line = TitleLine                 -> "banner"
      [] line = VersionLine(version_info) -> "version"
      [] line = RequiredHeader            -> "required"
      [] line = OptionalHeader            -> "optional"
      [] line = ExternalHeader            -> "external"
      [] line = BuiltinHeader             -> "builtin"
      [] line = SummaryTitle              -> "summary"
      [] line = EnvHeader                 -> "environment"
      [] line = UsageTitle                -> "usage"
      [] OTHER                            -> ""

OpensSection(line) == SectionOf(line) # ""

\* the sections of the report, in the order printed
Sections ==
    LET opening == SelectSeq(out, OpensSection)
    IN  [k \in DOMAIN opening |-> SectionOf(opening[k])]

SectionOrder ==
    <<"banner", "version", "required", "optional", "external", "builtin",
      "summary", "environment", "usage">>

IsPrefix(s, t) == Len(s) <= Len(t) /\ SubSeq(t, 1, Len(s)) = s

\* the commands of the external tool table, in table order
ToolCommands == [k \in DOMAIN external_tools |-> external_tools[k][1]]

\* the number of check_command calls that returned True
ToolsFound == Cardinality({k \in DOMAIN probed : probed[k].result = Return(TRUE)})

\* the child ran to its exit within the timeout
ExitedInTime(child) == child.start = "ok" /\ child.duration <= Timeout

\* the process has exited normally
ExitedNormally == pc = "done" /\ exit_status = 0

KeySet == "OPENAI_API_KEY" \in DOMAIN environ
KeyNonEmpty == KeySet /\ environ["OPENAI_API_KEY"] # ""

----------------------------------------------------------------------------
(* The claims *)

\* C1: every run of main() ends with exit status 0, whatever the probes met.
C1_ExitsZero == pc = "done" => exit_status = 0

\* C2: check_command never lets an exception reach its caller: every failure
\* to start or run the child becomes the return value False.
C2_CommandNeverRaises ==
    call.fn = "check_command" => call.result.kind = "return"

\* C3: check_command(cmd, name) returns True exactly when the child started,
\* exited within the timeout and exited with status 0; a non-zero status
\* gives False; the name argument and the child's output change nothing.
C3_TrueIffExitZero ==
    call.fn = "check_command" =>
        /\ call.result = Return(TRUE)
               <=> (ExitedInTime(call.child) /\ call.child.returncode = 0)
        /\ (ExitedInTime(call.child) /\ call.child.returncode # 0)
               => call.result = Return(FALSE)
        /\ \A t \in Range(external_tools), o \in {"", "Version: 0.50.0", "error"} :
               check_command(call.cmd, t[2], [call.child EXCEPT !.stdout = o])
                   = call.result

C3_Witness ==
    /\ call.fn = "check_command"
    /\ call.result = Return(TRUE)
    /\ call.child.stdout # ""
    /\ \E k \in DOMAIN probed : probed[k].result = Return(FALSE)

\* C4: check_python_module returns True exactly when the module loads and
\* False otherwise; no failure of the load reaches the caller as an exception.
C4_ModuleNeverRaises ==
    call.fn = "check_python_module" =>
        /\ call.result.kind = "return"
        /\ call.result.value <=> (call.load = "loaded")

\* C5: the summary reports exactly the number N of tools whose probe returned
\* True: for N = 0 the no-tools message and no count line, for N > 0 the
\* count line of N, no other count line and not the no-tools message.
C5_SummaryCount ==
    SummaryTitle \in Printed =>
        /\ Len(probed) = Len(external_tools)
        /\ ToolsFound \in 0..Len(external_tools)
        /\ tools_available = ToolsFound
        /\ IF ToolsFound = 0
           THEN /\ NoToolsLine \in Printed
                /\ \A n \in 0..Len(external_tools) : CountLine(n) \notin Printed
           ELSE /\ CountLine(ToolsFound) \in Printed
                /\ \A n \in 0..Len(external_tools) :
                       n # ToolsFound => CountLine(n) \notin Printed
                /\ NoToolsLine \notin Printed

C5_Witness ==
    /\ SummaryTitle \in Printed
    /\ ToolsFound = 2
    /\ probed[2].result = Return(FALSE)
    /\ CountLine(2) \in Printed

C7_EnabledWheneverSet ==
    EnvHeader \in Printed =>
        /\ KeySet => EnvEnabled \in Printed
        /\ EnvFallback \in Printed => ~KeySet

\* C7, amended: the environment check reports the feature as enabled exactly
\* when OPENAI_API_KEY is set to a non-empty value, and reports fallback mode
\* with the export hint exactly when it is unset or set to the empty string.
C7_EnabledIffNonEmpty ==
    EnvHeader \in Printed =>
        /\ EnvEnabled \in Printed <=> KeyNonEmpty
        /\ EnvFallback \in Printed <=> ~KeyNonEmpty
        /\ EnvHint \in Printed <=> ~KeyNonEmpty

C7_Witness ==
    /\ EnvHeader \in Printed
    /\ KeySet
    /\ ~KeyNonEmpty
    /\ EnvFallback \in Printed
    /\ EnvHint \in Printed

\* C8: the version check prints the compatible line exactly when
\* (major, minor) is at least (3, 9) and the warning line otherwise, and in
\* both cases the run goes on to the required packages.
C8_VersionCheck ==
    LET atLeast39 == \/ version_info[1] > 3
                     \/ version_info[1] = 3 /\ version_info[2] >= 9
    IN  /\ VersionLine(version_info) \in Printed =>
               /\ VersionOk \in Printed <=> atLeast39
               /\ VersionWarning \in Printed <=> ~atLeast39
               /\ pc = "required" \/ RequiredHeader \in Printed
               /\ pc = "required" => raised = None
        /\ VersionLine(version_info) \notin Printed =>
               VersionOk \notin Printed /\ VersionWarning \notin Printed

C8_Witness ==
    /\ VersionOk \in Printed
    /\ VersionWarning \notin Printed
    /\ version_info[2] < 9
    /\ pc = "req_probe"

\* C9: the sections are printed once each in the fixed order; main() leaves
\* the order only when a probe raises, so whatever the probes return (a
\* missing package, an absent tool) every later section follows, and the
\* built-in scanner line is printed whatever the tool probes returned.
C9_FixedOrder ==
    /\ IsPrefix(Sections, SectionOrder)
    /\ raised # None => call.fn # "none" /\ call.result.kind = "raise"
    /\ (pc \in {"exit", "done"} /\ raised = None) => Sections = SectionOrder
    /\ BuiltinHeader \in Printed <=> BuiltinLine \in Printed
    /\ (Len(probed) = Len(external_tools) /\ pc \in {"summary", "env", "usage"})
           => BuiltinLine \in Printed

C9_Witness ==
    /\ pc = "done"
    /\ Sections = SectionOrder
    /\ RequiredLines(required_packages[1], FALSE)[1] \in Printed
    /\ ToolsFound = 0
    /\ BuiltinLine \in Printed

\* C10: the tools are probed one after another in table order, each once:
\* at most one child process is alive at any time, and a probe starts only
\* when the one before has returned.
C10_OneChildAtATime ==
    /\ Cardinality(alive) <= 1
    /\ IsPrefix([k \in DOMAIN probed |-> probed[k].cmd], ToolCommands)
    /\ \A k \in DOMAIN probed :
           probed[k].result = Pending => k = Len(probed) /\ pc = "ext_wait"
    /\ alive # {} =>
           /\ pc = "ext_wait"
           /\ alive = {probed[Len(probed)].cmd}
    /\ pc = "ext_spawn" => alive = {} /\ Len(probed) = i - 1
    /\ (pc \in {"exit", "done"} /\ raised = None)
           => Len(probed) = Len(external_tools)

C10_Witness ==
    /\ pc = "ext_wait"
    /\ Len(probed) = Len(external_tools)
    /\ alive = {"gitleaks"}
    /\ probed[1].result = Return(FALSE)
    /\ probed[2].result = Return(TRUE)

============================================================================
